---- MODULE Spec2Model ----
(***************************************************************************)
(* The trading decision loop of upbit-dashboard: TradingEngine             *)
(* (src/src/trading_engine.py), the control calls made by main.py and by   *)
(* the dashboard callback control_trading, the exchange gateway as the     *)
(* environment the engine talks to, and the strategy objects               *)
(* (src/src/strategies) as far as their candle data goes.                  *)
(*                                                                         *)
(* Units.  KRW balances are whole KRW.  Prices are in units of 10^4 KRW,   *)
(* amounts in units of 10^-4 KRW and volumes in units of 10^-8 coin, so    *)
(* that volume = amount / price carries over unchanged to the scaled       *)
(* integers and every product stays inside TLC's integers.                 *)
(***************************************************************************)
EXTENDS Integers, Sequences, FiniteSets, TLC

(* ------------------------------ bounds --------------------------------- *)

\* Thread objects start_engine may create in one run of the model.
MaxThreads == 2

\* Orders the exchange accepts in one run; every later one is rejected.
MaxOrders == 2

\* Longest list of signals one cycle hands to process_signals (main() registers
\* 3 strategies per market; register_strategy takes any number).
MaxSignals == 4

\* Configured markets, in configured order.
Markets == <<"KRW-BTC">>

\* Prices the ticker and the candles can show (units of 10^4 KRW).
Prices == {4000, 5000}

\* KRW balances get_balance('KRW') can show.
KrwLevels == {4000, 5000, 9000}

\* Most candles get_candles returns in one call.
MaxCandles == 6

\* Longest series of candles a strategy is evaluated over, candle by candle.
MaxSeries == 8

\* Closing prices a candle can have.
Closes == {100, 110, 120}

\* Prices get_current_price can show while the price history is followed
\* (units of 10^4 KRW), most prices run() reads for it, and most times the
\* price differs from the one before.
HistoryPrices == {4000, 4100, 5000}

\* KRW balances a BUY can read when its amount is computed, and prices of a
\* coin in KRW.
SizingBalances == {0, 4000, 4999, 5000, 5001, 5002, 5003, 9000, 20000}
CoinPrices == {1, 2, 40000000}
MaxArrivals == 32
MaxJumps == 2

\* Positive base-currency balances get_balance can show (units of 10^-8 coin).
CoinLevels == {10000, 20000}

\* What get_avg_buy_price can show (units of 10^4 KRW), 0 for None: against a
\* price of 4000 the margins +2.56%, +1.27%, -0.4975%, -0.5%, -0.74% and -1.01%.
AvgBuyPrices == {0, 3900, 3950, 4020, 4030, 4041}

(* -------------------------- program constants -------------------------- *)

MIN_ORDER_AMOUNT == 5000

\* amount = balance_krw * 0.9995, as a fraction FeeNum / Scale
FeeNum == 9995

Scale == 10000

(* ------------------------------- state --------------------------------- *)

VARIABLES
    running,            \* TradingEngine.running
    is_trading_enabled, \* TradingEngine.is_trading_enabled
    full_amount_mode,   \* TradingEngine.full_amount_mode
    thread,             \* TradingEngine.thread: id of the last Thread, 0 = None
    buy_prices,         \* TradingEngine.buy_prices: market -> price, 0 = no key
    wpc,                \* per Thread: where its run() stands
    wl,                 \* per Thread: the locals of run / process_signals / execute_trade
    balance,            \* exchange: base-currency balance per market
    bids,               \* exchange: accepted, unfilled buy orders per market
    norders,            \* exchange: orders accepted so far
    openBuys,           \* history: confirmed buys per market since the last confirmed sell
    lastOp,             \* history: the last control call made
    strat,              \* per strategy object: its candle data and its last signal
    candles,            \* exchange: the closes of the market's candles, oldest first;
                        \* history: the signal emitted at each of them; and what
                        \* the installed pandas does with a chained assignment
    rsi,                \* the closes the RSI strategy was last evaluated on, the
                        \* RSI of the last row and the signal it returned
    hist,               \* price_history of the market, the thresholds of its RSI
                        \* and Bollinger strategies, and history: every price
                        \* that arrived
    sizing              \* the last BUY whose amount was computed: the mode, what
                        \* it read and the amount of its order

vars == <<running, is_trading_enabled, full_amount_mode, thread, buy_prices,
          wpc, wl, balance, bids, norders, openBuys, lastOp, strat, candles, rsi, hist, sizing>>

engineVars == <<running, is_trading_enabled, full_amount_mode, thread>>
exchangeVars == <<balance, bids, norders>>
historyVars == <<openBuys, lastOp>>
unitVars == <<strat, candles, rsi, hist, sizing>>

Threads == 1..MaxThreads
MarketIds == 1..Len(Markets)

Min(a, b) == IF a <= b THEN a ELSE b

(* --------------------------- control calls ----------------------------- *)

\* The fields of the engine that the control calls read and write.
Engine == [running |-> running, is_trading_enabled |-> is_trading_enabled,
           full_amount_mode |-> full_amount_mode, thread |-> thread]

\* start_engine(): no-op when running, else running = True and a new Thread
\* (ids count the Thread objects created, so the new one is thread + 1).
start_engine(e) ==
    IF e.running THEN e
    ELSE [e EXCEPT !.running = TRUE, !.thread = @ + 1]

\* stop_engine(): running = False, then join(timeout=10): the caller goes on
\* whether or not the worker has ended.
stop_engine(e) == [e EXCEPT !.running = FALSE]

\* start() creating its Thread without looking at running.
start_unguarded(e) ==
    [e EXCEPT !.is_trading_enabled = TRUE, !.full_amount_mode = TRUE,
              !.running = TRUE, !.thread = @ + 1]

\* start(): is_trading_enabled = True first, then start_engine() when stopped.
start(e) ==
    LET e1 == [e EXCEPT !.is_trading_enabled = TRUE]
    IN  IF ~e1.running
        THEN start_engine([e1 EXCEPT !.full_amount_mode = TRUE])
        ELSE e1

\* stop(): clears is_trading_enabled only when the engine is running.
stop(e) ==
    IF e.running THEN [e EXCEPT !.is_trading_enabled = FALSE] ELSE e

\* get_trading_status(): returns is_trading_enabled, a bool.
get_trading_status(e) == e.is_trading_enabled

\* The engine fields after TradingEngine.__init__.
NewEngine == [running |-> FALSE, is_trading_enabled |-> FALSE,
              full_amount_mode |-> TRUE, thread |-> 0]

\* control_trading, start button: start(), then forces the flag if still unset.
control_trading_start(e) ==
    LET e1 == start(e)
    IN  IF ~e1.is_trading_enabled
        THEN [e1 EXCEPT !.is_trading_enabled = TRUE]
        ELSE e1

\* control_trading, stop button: stop().
control_trading_stop(e) == stop(e)

\* main(): start_engine(), then is_trading_enabled = True.
main_startup(e) == [start_engine(e) EXCEPT !.is_trading_enabled = TRUE]

\* A control call made by the main thread or by a dashboard callback thread,
\* taken as one step (the state the caller sees when the call returns): the
\* engine fields become op's result and a newly created Thread starts run().
Control(name, e2) ==
    /\ e2.thread <= MaxThreads
    /\ running' = e2.running
    /\ is_trading_enabled' = e2.is_trading_enabled
    /\ full_amount_mode' = e2.full_amount_mode
    /\ thread' = e2.thread
    /\ wpc' = IF e2.thread # thread THEN [wpc EXCEPT ![e2.thread] = "check"] ELSE wpc
    /\ lastOp' = name
    /\ UNCHANGED <<buy_prices, wl, exchangeVars, openBuys, unitVars>>

\* The calls of the TradingEngine interface, made in any order by any caller.
Start == Control("start", start(Engine))
Stop == Control("stop", stop(Engine))
StartEngine == Control("start_engine", start_engine(Engine))
StopEngine == Control("stop_engine", stop_engine(Engine))

\* The program: main() starts the engine once, the dashboard callbacks run
\* while run_dashboard() serves, and main() ends with stop_engine().
DashboardUp == lastOp \in {"main", "control_trading_start", "control_trading_stop"}

MainStartup ==
    /\ lastOp = "init"
    /\ Control("main", main_startup(Engine))

DashStart ==
    /\ DashboardUp
    /\ Control("control_trading_start", control_trading_start(Engine))

DashStop ==
    /\ DashboardUp
    /\ Control("control_trading_stop", control_trading_stop(Engine))

MainShutdown ==
    /\ DashboardUp
    /\ Control("shutdown", stop_engine(Engine))

(* ------------------------------ gateway -------------------------------- *)

\* What a gateway read can give: a value, or an exception (get_balance raises
\* when get_accounts failed and returned None, which get_account iterates).
ReadOutcomes == {"ok", "raise"}

\* What place_order can give: an order confirmation, None, or an exception.
PlaceOutcomes == {"ok", "null", "raise"}

\* get_current_price as run and process_signals use it: a price, or 0 for a
\* result that `if not current_price` rejects.
TickerResults == Prices \cup {0}

\* _in_position(market): the base-currency balance is positive.
in_position(bal) == bal > 0

(* --------------------------- order arithmetic -------------------------- *)

\* amount = min(balance_krw * 1.0, balance_krw * 0.9995), raised to
\* MIN_ORDER_AMOUNT when below it (units of 10^-4 KRW).
BuyAmount(balance_krw) ==
    LET amount == Min(balance_krw * Scale, balance_krw * FeeNum)
    IN  IF amount < MIN_ORDER_AMOUNT * Scale
        THEN MIN_ORDER_AMOUNT * Scale
        ELSE amount

\* round(amount / price, 8): the nearest multiple of 10^-8, ties to even.
RoundVolume(amount, price) ==
    LET q == amount \div price
        r == amount % price
    IN  IF 2 * r < price THEN q
        ELSE IF 2 * r > price THEN q + 1
        ELSE IF q % 2 = 0 THEN q ELSE q + 1

(* --------------------------- worker locals ----------------------------- *)

NoCall == [action |-> "-", price |-> 0, strong |-> FALSE]
NoOrd == [side |-> "-", amount |-> 0, volume |-> 0, price |-> 0, branch |-> "-"]
NoRes == [outcome |-> "-", attempts |-> 0, ret |-> "-"]

\* The locals of a Thread outside a cycle.
IdleLocals ==
    [mi |-> 0, sigs |-> <<>>, cp |-> 0, phase |-> "-", vb2 |-> FALSE, vs2 |-> FALSE,
     pos1 |-> "-", placed |-> 0, sell |-> FALSE, sp |-> 0, krw |-> 0,
     call |-> NoCall, ord |-> NoOrd, res |-> NoRes]

SignalKinds == {"BUY", "SELL", "INT"}

RECURSIVE SeqsUpTo(_, _)
SeqsUpTo(S, n) ==
    IF n = 0 THEN {<<>>}
    ELSE LET shorter == SeqsUpTo(S, n - 1)
         IN  shorter \cup {Append(q, x) : q \in {t \in shorter : Len(t) = n - 1}, x \in S}

\* The lists run() can collect from the strategies of a market: a dict signal
\* BUY or SELL from SMA or Bollinger, a non-zero int from RSI; None and 0 are
\* dropped by `if signal`.
SignalLists == SeqsUpTo(SignalKinds, MaxSignals)

Count(q, a) == Cardinality({i \in DOMAIN q : q[i] = a})

(* --------------------------- process_signals --------------------------- *)

\* A strong signal only from 3 votes on.
StrongVotes3(n) == n >= 3

\* "2개 이상 전략에서 동일 신호": a strong signal needs at least 2 votes.
StrongVotes(n) == n >= 2

\* The branch of the if / elif / elif chain whose condition is evaluated first
\* with a gateway read: the strong buy test, the strong sell test, or the loop.
EntryPhase(vb, vs) ==
    IF StrongVotes(vb) THEN "strongbuy"
    ELSE IF StrongVotes(vs) THEN "strongsell"
    ELSE "loop"

\* The per-signal loop right after a strong buy test that found a position.
AfterStrongBuyLoop(vs) == "loop"

\* The phase after a strong buy test that found a position.
AfterStrongBuy(vs) == IF StrongVotes(vs) THEN "strongsell" ELSE "loop"

\* The per-signal test without its _in_position part.
WeakActUngated(action, pos) == action \in {"BUY", "SELL"}

\* The per-signal test of the loop: buy when flat, sell when holding.
WeakAct(action, pos) ==
    \/ action = "BUY" /\ ~pos
    \/ action = "SELL" /\ pos

\* The price a strong decision trades at: current_price of process_signals.
StrongPrice(cp, sp) == cp

\* A per-signal decision trading at the current price of process_signals.
WeakPriceCurrent(cp, sp) == cp

\* The price a per-signal decision trades at: signal.get('price', current_price).
WeakPrice(cp, sp) == sp

(* ------------------------------- run() --------------------------------- *)

\* The thread leaves the market it was handling: the next configured market,
\* or time.sleep(self.interval) after the last one.
NextMarket(w, l) ==
    IF l.mi < Len(Markets)
    THEN /\ wpc' = [wpc EXCEPT ![w] = "market"]
         /\ wl' = [wl EXCEPT ![w] = [IdleLocals EXCEPT !.mi = l.mi + 1]]
    ELSE /\ wpc' = [wpc EXCEPT ![w] = "sleep"]
         /\ wl' = [wl EXCEPT ![w] = IdleLocals]

\* An exception that ends run() and with it the thread.
LoopCrash(w) ==
    /\ wpc' = [wpc EXCEPT ![w] = "dead"]
    /\ wl' = [wl EXCEPT ![w] = IdleLocals]

\* An exception reaches the handler of the loop: time.sleep(10), the rest of
\* the cycle is dropped.
LoopHandler(w) ==
    /\ wpc' = [wpc EXCEPT ![w] = "backoff"]
    /\ wl' = [wl EXCEPT ![w] = IdleLocals]

\* signal.get('action') raises AttributeError on a signal that is no dict:
\* process_signals has no handler, the one of the loop catches it.  The locals
\* keep the market (mi) and that process_signals raised (phase).
SignalsRaise(w, l) ==
    /\ wpc' = [wpc EXCEPT ![w] = "backoff"]
    /\ wl' = [wl EXCEPT ![w] = [IdleLocals EXCEPT !.mi = l.mi, !.phase = "raised"]]

\* A loop test that never sees running false.
run_check_always(w) ==
    /\ wpc[w] = "check"
    /\ wpc' = [wpc EXCEPT ![w] = "market"]
    /\ wl' = [wl EXCEPT ![w] = [IdleLocals EXCEPT !.mi = 1]]
    /\ UNCHANGED <<engineVars, buy_prices, exchangeVars, historyVars, unitVars>>

\* while self.running: a cycle starts, or run() returns and the thread ends.
run_check(w) ==
    /\ wpc[w] = "check"
    /\ IF running
       THEN /\ wpc' = [wpc EXCEPT ![w] = "market"]
            /\ wl' = [wl EXCEPT ![w] = [IdleLocals EXCEPT !.mi = 1]]
       ELSE /\ wpc' = [wpc EXCEPT ![w] = "dead"]
            /\ wl' = [wl EXCEPT ![w] = IdleLocals]
    /\ UNCHANGED <<engineVars, buy_prices, exchangeVars, historyVars, unitVars>>

\* time.sleep returns: the one at the end of a cycle ("sleep") or the one of
\* the exception handler ("backoff").
run_sleep(w) ==
    /\ wpc[w] \in {"sleep", "backoff"}
    /\ wpc' = [wpc EXCEPT ![w] = "check"]
    /\ UNCHANGED <<engineVars, buy_prices, wl, exchangeVars, historyVars, unitVars>>

\* One market of the cycle, up to the vote count of process_signals: the price
\* for the history (tick, out of ticks), the signals of the strategies (sigs),
\* then process_signals: its is_trading_enabled test, its own current price
\* (cur) and the two sums over signal.get('action'), which raise on an int
\* signal.  rd: whether a gateway call of the cycle raises, which only the
\* handler of the loop catches.  (The price history and _adjust_strategies_for_volatility come
\* between tick and the signals; process_signals and execute_trade read neither.)
run_market_on(w, ticks) ==
    /\ wpc[w] = "market"
    /\ \E rd \in ReadOutcomes, tick \in ticks, sigs \in SignalLists, cur \in TickerResults :
        LET l == wl[w]
            vb == Count(sigs, "BUY")
            vs == Count(sigs, "SELL")
        IN  IF rd = "raise" THEN LoopHandler(w)
            ELSE IF tick = 0 \/ sigs = <<>> \/ ~is_trading_enabled \/ cur = 0
            THEN NextMarket(w, l)
            ELSE IF Count(sigs, "INT") > 0
            THEN SignalsRaise(w, l)
            ELSE /\ wpc' = [wpc EXCEPT ![w] = "decide"]
                 /\ wl' = [wl EXCEPT ![w] =
                        [l EXCEPT !.sigs = sigs, !.cp = cur, !.vb2 = (vb >= 2), !.vs2 = (vs >= 2),
                                  !.phase = EntryPhase(vb, vs)]]
    /\ UNCHANGED <<engineVars, buy_prices, exchangeVars, historyVars, unitVars>>

\* The ticker answers, or not.
run_market(w) == run_market_on(w, TickerResults)

\* The ticker is down: get_current_price gives None.
run_market_no_ticker(w) == run_market_on(w, {0})

MarketSet == {Markets[i] : i \in MarketIds}

\* process_signals calls execute_trade(market, action, ..., price).
Call(w, l, action, price, strong) ==
    /\ wpc' = [wpc EXCEPT ![w] = "exec"]
    /\ wl' = [wl EXCEPT ![w] =
           [l EXCEPT !.call = [action |-> action, price |-> price, strong |-> strong],
                     !.sell = @ \/ action = "SELL"]]

\* The loop goes on to the signal after the head of sigs; process_signals
\* returns after the last one.
NextSignal(w, l) ==
    IF Len(l.sigs) > 1
    THEN /\ wpc' = [wpc EXCEPT ![w] = "decide"]
         /\ wl' = [wl EXCEPT ![w] = [l EXCEPT !.sigs = Tail(l.sigs), !.call = NoCall,
                                              !.ord = NoOrd, !.res = NoRes, !.sp = 0,
                                              !.krw = 0]]
    ELSE NextMarket(w, l)

\* One test of the chain of process_signals, with its _in_position read (rd:
\* whether get_balance raises, which nothing in process_signals catches; sp:
\* the price the signal at the head of the list carries).
ps_decide(w) ==
    /\ wpc[w] = "decide"
    /\ \E rd \in ReadOutcomes, sp \in Prices :
        LET l == wl[w]
            pos == in_position(balance[Markets[l.mi]])
            l1 == IF l.pos1 = "-"
                  THEN [l EXCEPT !.pos1 = IF pos THEN "T" ELSE "F"]
                  ELSE l
        IN  IF rd = "raise" THEN LoopHandler(w)
            ELSE IF l.phase = "strongbuy"
            THEN IF ~pos
                 THEN Call(w, l1, "BUY", StrongPrice(l.cp, sp), TRUE)
                 ELSE /\ wl' = [wl EXCEPT ![w] = [l1 EXCEPT !.phase = AfterStrongBuy(Count(l.sigs, "SELL"))]]
                      /\ UNCHANGED wpc
            ELSE IF l.phase = "strongsell"
            THEN IF pos
                 THEN Call(w, l1, "SELL", StrongPrice(l.cp, sp), TRUE)
                 ELSE /\ wl' = [wl EXCEPT ![w] = [l1 EXCEPT !.phase = "loop"]]
                      /\ UNCHANGED wpc
            ELSE IF WeakAct(Head(l.sigs), pos)
                 THEN Call(w, [l1 EXCEPT !.sp = sp], Head(l.sigs), WeakPrice(l.cp, sp), FALSE)
                 ELSE NextSignal(w, l1)
    /\ UNCHANGED <<engineVars, buy_prices, exchangeVars, historyVars, unitVars>>

(* ---------------------------- execute_trade ---------------------------- *)

Return(outcome) == [kind |-> "return", outcome |-> outcome, ord |-> NoOrd]
Place(side, amount, volume, price, branch) ==
    [kind |-> "place", outcome |-> "-",
     ord |-> [side |-> side, amount |-> amount, volume |-> volume, price |-> price,
              branch |-> branch]]

\* What is_strong_sell_signal and is_extreme_sell_signal can give: they call
\* generate_signal of the strategies and signal.get on the result, which
\* raises on the int signal of the RSI strategy.
SellSignalResults == {"T", "F", "raise"}

\* current_margin = ((price - avg_buy_price) / avg_buy_price) * 100 compared
\* with a threshold given in tenths of a percent.
MarginBelow(price, avg, tenths) == 1000 * (price - avg) < tenths * avg
MarginAbove(price, avg, tenths) == 1000 * (price - avg) > tenths * avg

\* The thresholds of the stop-loss conditions, in tenths of a percent.
StopLossBase == -10
StopLossStrong == -8
StopLossExtreme == -5

\* The thresholds of the take-profit conditions, in tenths of a percent.
TakeProfitBase == 20
TakeProfitStrong == 15
TakeProfitExtreme == 10

\* Building the two condition lists raises when a sell-signal helper that an
\* `and` reaches raises; both lists are built before either is tested.
ConditionsRaise(price, avg, strong, extreme) ==
    \/ MarginBelow(price, avg, StopLossStrong) /\ strong = "raise"
    \/ MarginBelow(price, avg, StopLossExtreme) /\ extreme = "raise"
    \/ MarginAbove(price, avg, TakeProfitStrong) /\ strong = "raise"
    \/ MarginAbove(price, avg, TakeProfitExtreme) /\ extreme = "raise"

\* any(stop_loss_conditions)
StopLoss(price, avg, strong, extreme) ==
    \/ MarginBelow(price, avg, StopLossBase)
    \/ MarginBelow(price, avg, StopLossStrong) /\ strong = "T"
    \/ MarginBelow(price, avg, StopLossExtreme) /\ extreme = "T"

\* any(take_profit_conditions)
TakeProfit(price, avg, strong, extreme) ==
    \/ MarginAbove(price, avg, TakeProfitBase)
    \/ MarginAbove(price, avg, TakeProfitStrong) /\ strong = "T"
    \/ MarginAbove(price, avg, TakeProfitExtreme) /\ extreme = "T"

\* The branch of SELL that submits the order: the stop-loss one, the
\* take-profit one, or the ordinary one (also when avg_buy_price is None).
SellBranch(price, avg, strong, extreme) ==
    IF avg = 0 THEN "ordinary"
    ELSE IF StopLoss(price, avg, strong, extreme) THEN "stoploss"
    ELSE IF TakeProfit(price, avg, strong, extreme) THEN "takeprofit"
    ELSE "ordinary"

\* A take-profit that sells half of the balance.
SellVolumePartial(bal, branch) == IF branch = "takeprofit" THEN bal \div 2 ELSE bal

\* The volume of a sell order: the balance just read, in every branch.
SellVolume(bal, branch) == bal

\* A SELL that places its order only on a stop-loss or take-profit condition.
sell_order_on_margin(price, bal, avg, strong, extreme) ==
    LET branch == SellBranch(price, avg, strong, extreme)
    IN  IF avg # 0 /\ branch = "ordinary" THEN Return("hold")
        ELSE Place("ask", 0, SellVolume(bal, branch), price, branch)

\* The order of a SELL with a positive balance: every branch ends in one
\* place_order call for the balance, the stop-loss and take-profit branches
\* return after theirs, the ordinary one is the last statement of the try.
sell_order(price, bal, avg, strong, extreme) ==
    LET branch == SellBranch(price, avg, strong, extreme)
    IN  Place("ask", 0, SellVolume(bal, branch), price, branch)

\* execute_trade up to its place_order call: the is_trading_enabled test, then
\* inside the try the balance read (rd: whether it raises) and the checks on
\* it.  process_signals always passes a price, so the price is never fetched
\* here; full_amount_mode is never False, so only that branch of BUY is taken.
\* For SELL: avg is what get_avg_buy_price gives, strong and extreme what the
\* two sell-signal helpers give when called.
execute_trade_begin(enabled, action, price, rd, balance_krw, bal, avg, strong, extreme) ==
    IF ~enabled THEN Return("disabled")
    ELSE IF rd = "raise" THEN Return("exception")
    ELSE IF action = "BUY"
    THEN IF balance_krw < MIN_ORDER_AMOUNT THEN Return("lowbal")
         ELSE IF balance_krw <= 0 THEN Return("lowbal")
         ELSE Place("bid", BuyAmount(balance_krw),
                    RoundVolume(BuyAmount(balance_krw), price), price, "full")
    ELSE IF bal <= 0 THEN Return("nobal")
         ELSE IF avg # 0 /\ ConditionsRaise(price, avg, strong, extreme)
         THEN Return("exception")
         ELSE sell_order(price, bal, avg, strong, extreme)

\* What execute_trade returns after place_order: True after a confirmed buy,
\* None (a bare return, or falling off the end) in every other case.
ReturnValue(action, out) ==
    IF action = "BUY" /\ out = "ok" THEN "True" ELSE "None"

\* place_order called again after a null.
PlaceAttemptsRetry(out) == IF out = "null" THEN 2 ELSE 1

\* How often execute_trade calls place_order, whatever the call gives: after
\* a null the if order: test fails and the function ends, when it raises the
\* except clause logs and the function ends.
PlaceAttempts(out) == 1

\* buy_prices written whatever place_order returned.
RecordBuyPriceUnchecked(bp, market, action, out, price) ==
    IF action = "BUY" THEN [bp EXCEPT ![market] = price] ELSE bp

\* buy_prices after place_order: self.buy_prices[market] = price after a
\* confirmed buy, untouched otherwise.
RecordBuyPrice(bp, market, action, out, price) ==
    IF action = "BUY" /\ out = "ok" THEN [bp EXCEPT ![market] = price] ELSE bp

\* execute_trade has returned to process_signals: a strong decision ends
\* process_signals, a per-signal one goes on with the loop.
Continue(w, l) ==
    IF l.call.strong THEN NextMarket(w, l) ELSE NextSignal(w, l)

\* execute_trade returns: the result stays in the locals of the thread until
\* process_signals goes on.
Returned(w, l, outcome, attempts, ret) ==
    /\ wpc' = [wpc EXCEPT ![w] = "ret"]
    /\ wl' = [wl EXCEPT ![w] =
           [l EXCEPT !.res = [outcome |-> outcome, attempts |-> attempts, ret |-> ret]]]

\* The KRW balance an execute_trade call has read: a BUY that got past the
\* is_trading_enabled test and whose get_balance did not raise; 0 for none.
BalanceRead(enabled, action, rd, balance_krw) ==
    IF enabled /\ action = "BUY" /\ rd = "ok" THEN balance_krw ELSE 0

\* The values the branch of an action reads: a BUY reads the KRW balance, a
\* SELL the average buy price and the two sell-signal helpers.
KrwReads(action) == IF action = "BUY" THEN KrwLevels ELSE {0}
AvgReads(action) == IF action = "SELL" THEN AvgBuyPrices ELSE {0}
HelperReads(action) == IF action = "SELL" THEN SellSignalResults ELSE {"F"}

\* balance_krw: what get_balance('KRW') gives; the account is also used from
\* outside the engine, so any level can show at any read.
et_begin(w) ==
    /\ wpc[w] = "exec"
    /\ \E rd \in ReadOutcomes, balance_krw \in KrwReads(wl[w].call.action),
          avg \in AvgReads(wl[w].call.action),
          strong \in HelperReads(wl[w].call.action),
          extreme \in HelperReads(wl[w].call.action) :
        LET l == [wl[w] EXCEPT !.krw = BalanceRead(is_trading_enabled, wl[w].call.action,
                                                   rd, balance_krw)]
            m == Markets[l.mi]
            r == execute_trade_begin(is_trading_enabled, l.call.action, l.call.price,
                                     rd, balance_krw, balance[m], avg, strong, extreme)
        IN  IF r.kind = "place"
            THEN /\ wpc' = [wpc EXCEPT ![w] = "place"]
                 /\ wl' = [wl EXCEPT ![w] = [l EXCEPT !.ord = r.ord]]
            ELSE Returned(w, l, r.outcome, 0, "None")
    /\ UNCHANGED <<engineVars, buy_prices, exchangeVars, historyVars, unitVars>>

\* The outcome of one place_order call as the caller sees it.
CallOutcome(out) ==
    IF out = "ok" THEN "confirmed" ELSE IF out = "null" THEN "rejected" ELSE "exception"

\* place_order and the rest of execute_trade.  The exchange accepts an order
\* (out = "ok") only below MaxOrders, and a sell only for coins the account has.
et_place(w) ==
    /\ wpc[w] = "place"
    /\ LET l == wl[w]
           m == Markets[l.mi]
           o == l.ord
           buy == o.side = "bid"
       IN  \E out \in {x \in PlaceOutcomes :
                          x = "ok" => /\ norders < MaxOrders
                                      /\ (~buy => o.volume <= balance[m])} :
           /\ buy_prices' = RecordBuyPrice(buy_prices, m, l.call.action, out, o.price)
           /\ bids' = IF out = "ok" /\ buy THEN [bids EXCEPT ![m] = @ + 1] ELSE bids
           /\ balance' = IF out = "ok" /\ ~buy
                         THEN [balance EXCEPT ![m] = @ - o.volume]
                         ELSE balance
           /\ norders' = IF out = "ok" THEN norders + 1 ELSE norders
           /\ openBuys' = IF out # "ok" THEN openBuys
                          ELSE IF buy THEN [openBuys EXCEPT ![m] = @ + 1]
                          ELSE [openBuys EXCEPT ![m] = 0]
           /\ Returned(w, [l EXCEPT !.placed = @ + PlaceAttempts(out)], CallOutcome(out),
                       PlaceAttempts(out),
                       ReturnValue(l.call.action, out))
    /\ UNCHANGED <<engineVars, lastOp, unitVars>>

\* process_signals goes on after execute_trade.
ps_continue(w) ==
    /\ wpc[w] = "ret"
    /\ Continue(w, wl[w])
    /\ UNCHANGED <<engineVars, buy_prices, exchangeVars, historyVars, unitVars>>

(* ----------------------------- strategies ------------------------------ *)

\* The strategies main() registers for a market.
Strategies == {"sma", "rsi", "bollinger"}

\* STRATEGY_PARAMS: the windows the strategies are configured with.
SmaLongWindow == 5
RsiPeriod == 5
BollingerPeriod == 5

\* The rows a strategy needs: long_window of SMA, period of RSI and Bollinger.
Window(s) ==
    IF s = "sma" THEN SmaLongWindow
    ELSE IF s = "rsi" THEN RsiPeriod
    ELSE BollingerPeriod

\* What get_candles can give: n >= 0 candles, or -1 for None (its own failure)
\* and for an exception.
CandleResults == -1 .. MaxCandles

\* What generate_signal can return: SMA and Bollinger a BUY or SELL dict or
\* None, RSI the ints 1, -1 or 0.
SignalResults(s) == IF s = "rsi" THEN {"1", "-1", "0"} ELSE {"BUY", "SELL", "None"}

\* The return value that stands for no signal.
HoldResult(s) == IF s = "rsi" THEN "0" ELSE "None"

\* BaseStrategy.__init__: df = None (0 rows stands for None), nothing
\* fetched, nothing returned.
NewStrategy == [df |-> 0, fetched |-> -1, signal |-> "-"]

\* fetch_data: the rows of self.df afterwards.  Without candles the DataFrame
\* has no 'date' column, df['date'] raises inside the try and self.df keeps
\* what it had; the same when get_candles raises.
fetch_data(df, c) == IF c <= 0 THEN df ELSE c

\* calculate_* without the test of the number of rows.
EnoughAnyRows(s, df) == df # 0

\* calculate_indicators / calculate_rsi / calculate_bollinger_bands return
\* True: self.df is there and has at least the window's rows.
Enough(s, df) == df # 0 /\ df >= Window(s)

\* What the last row of the data can say after a fetch that gave c: any
\* signal for new candles; for the candles kept from an earlier call, on
\* which the same calculation runs again, what it said then.
Indicated(s, c) ==
    IF c <= 0 /\ strat[s].df # 0 THEN {strat[s].signal} ELSE SignalResults(s)

\* generate_signal of strategy s: fetch_data, the calculation, and the signal
\* of the last row (r: what the indicators of the data say; every exception
\* ends in the except clause, which returns the no-signal value).
generate_signal(s) ==
    /\ \E c \in CandleResults : \E r \in Indicated(s, c) :
        LET d == fetch_data(strat[s].df, c)
        IN  strat' = [strat EXCEPT ![s] =
                [df |-> d, fetched |-> c,
                 signal |-> IF Enough(s, d) THEN r ELSE HoldResult(s)]]
    /\ UNCHANGED <<engineVars, buy_prices, wpc, wl, exchangeVars, historyVars, candles, rsi, hist, sizing>>

(* ---------------------------- SMA crossover ---------------------------- *)

\* STRATEGY_PARAMS['sma']['short_window']
SmaShortWindow == 2

\* Sum of the k entries of q that end at row i (rows count from 1).
RECURSIVE RollingSum(_, _, _)
RollingSum(q, i, k) == IF k = 0 THEN 0 ELSE q[i] + RollingSum(q, i - 1, k - 1)

\* short_sma > long_sma at row i: rolling(window).mean() is NaN before the
\* window is full, and a comparison with NaN is False.
sma_above(q, i) ==
    /\ i >= SmaLongWindow
    /\ RollingSum(q, i, SmaShortWindow) * SmaLongWindow
            > RollingSum(q, i, SmaLongWindow) * SmaShortWindow

\* What self.df['signal'][short_window:] = ... does.  The assignment goes
\* through an intermediate Series, which pandas documents as not guaranteed to
\* reach the DataFrame: without copy-on-write the Series is a view and the
\* column is written ("view"); with copy-on-write (the default from pandas
\* 3.0; no version is pinned) the Series is a copy and the column stays 0.
ChainedAssignment == {"view", "copy"}

\* df['signal'] at row i: 0, and from position short_window on (row
\* short_window + 1) np.where(short_sma > long_sma, 1, 0) where the chained
\* assignment writes the column.
sma_signal(q, i, ch) ==
    IF ch = "view" /\ i > SmaShortWindow /\ sma_above(q, i) THEN 1 ELSE 0

\* df['position'] at row i: signal.diff(), NaN (here 0) at the first row.
sma_position(q, i, ch) ==
    IF i = 1 THEN 0 ELSE sma_signal(q, i, ch) - sma_signal(q, i - 1, ch)

\* SMAStrategy.generate_signal on a DataFrame with the closes q.
SmaSignal(q, ch) ==
    IF Len(q) < SmaLongWindow THEN "None"
    ELSE IF sma_position(q, Len(q), ch) = 1 THEN "BUY"
    ELSE IF sma_position(q, Len(q), ch) = -1 THEN "SELL"
    ELSE "None"

\* A new candle closes and the SMA strategy is evaluated once: fetch_data
\* gets all candles (fewer exist than the count it asks for).
sma_new_candle ==
    /\ Len(candles.close) < MaxSeries
    /\ \E c \in Closes, ch \in ChainedAssignment :
        LET q == Append(candles.close, c)
            r == SmaSignal(q, ch)
        IN  /\ candles.chained \in {"-", ch}
            /\ candles' = [close |-> q, emitted |-> Append(candles.emitted, r),
                           chained |-> ch]
            /\ strat' = [strat EXCEPT !["sma"] =
                    [df |-> fetch_data(@.df, Len(q)), fetched |-> Len(q), signal |-> r]]
    /\ UNCHANGED <<engineVars, buy_prices, wpc, wl, exchangeVars, historyVars, rsi, hist, sizing>>

(* --------------------------------- RSI --------------------------------- *)

\* STRATEGY_PARAMS['rsi']['overbought'] and ['oversold']
RsiOverbought == 75
RsiOversold == 25

\* delta = close.diff() at row i: NaN at the first row.  gain and loss are
\* delta.where(delta > 0, 0) and -delta.where(delta < 0, 0): where the test is
\* False, and it is for NaN, they are 0.
rsi_gain(q, i) == IF i > 1 /\ q[i] > q[i - 1] THEN q[i] - q[i - 1] ELSE 0
rsi_loss(q, i) == IF i > 1 /\ q[i] < q[i - 1] THEN q[i - 1] - q[i] ELSE 0

\* period times the rolling(window=period).mean() of gain and of loss at row
\* i >= period.
RECURSIVE GainSum(_, _, _)
GainSum(q, i, k) == IF k = 0 THEN 0 ELSE rsi_gain(q, i) + GainSum(q, i - 1, k - 1)
RECURSIVE LossSum(_, _, _)
LossSum(q, i, k) == IF k = 0 THEN 0 ELSE rsi_loss(q, i) + LossSum(q, i - 1, k - 1)

\* A float that is not a number, and the quotient num / den of two naturals.
NaN == [nan |-> TRUE, num |-> 0, den |-> 1]
Quot(n, d) == [nan |-> FALSE, num |-> n, den |-> d]

\* rs = avg_gain / avg_loss and rsi = 100 - 100 / (1 + rs) in floats: with
\* avg_loss 0, rs is inf for a positive avg_gain (rsi 100) and NaN for avg_gain
\* 0 (rsi NaN); otherwise rsi = 100 * avg_gain / (avg_gain + avg_loss).
rsi_of(g, l) ==
    IF l = 0 THEN (IF g = 0 THEN NaN ELSE Quot(100, 1))
    ELSE Quot(100 * g, g + l)

\* x < t and x > t for an RSI x: both False for NaN.
RsiBelow(x, t) == ~x.nan /\ x.num < t * x.den
RsiAbove(x, t) == ~x.nan /\ x.num > t * x.den

\* The RSI of the last row of the closes q (Len(q) >= period).
latest_rsi(q) ==
    rsi_of(GainSum(q, Len(q), RsiPeriod), LossSum(q, Len(q), RsiPeriod))

\* RSIStrategy.generate_signal on a DataFrame with the closes q.
RsiSignal(q) ==
    IF Len(q) < RsiPeriod THEN "0"
    ELSE IF RsiBelow(latest_rsi(q), RsiOversold) THEN "1"
    ELSE IF RsiAbove(latest_rsi(q), RsiOverbought) THEN "-1"
    ELSE "0"

NoRsi == [close |-> <<>>, value |-> NaN, signal |-> "-"]

\* A new candle closes and the RSI strategy is evaluated once.
rsi_new_candle ==
    /\ Len(rsi.close) < MaxSeries
    /\ \E c \in Closes :
        LET q == Append(rsi.close, c)
        IN  /\ rsi' = [close |-> q,
                       value |-> IF Len(q) < RsiPeriod THEN NaN ELSE latest_rsi(q),
                       signal |-> RsiSignal(q)]
            /\ strat' = [strat EXCEPT !["rsi"] =
                    [df |-> fetch_data(@.df, Len(q)), fetched |-> Len(q),
                     signal |-> RsiSignal(q)]]
    /\ UNCHANGED <<engineVars, buy_prices, wpc, wl, exchangeVars, historyVars, candles, hist, sizing>>

(* --------------------- price history and volatility -------------------- *)

\* The price history keeps 30 prices; the volatility is that of the last 10.
HistoryCap == 30
VolatilityWindow == 10

\* STRATEGY_PARAMS: overbought and oversold of RSI, std_dev of Bollinger
\* (std_dev in tenths).
ConfiguredSettings == [overbought |-> RsiOverbought, oversold |-> RsiOversold, std_dev |-> 20]

NewHistory ==
    [price_history |-> <<>>, settings |-> ConfiguredSettings, arrived |-> <<>>, jumps |-> 0]

\* A history that drops its newest entry.
TrimNewest(ph) == IF Len(ph) > HistoryCap THEN SubSeq(ph, 1, Len(ph) - 1) ELSE ph

\* if len(price_history) > 30: price_history.pop(0)
Trim(ph) == IF Len(ph) > HistoryCap THEN Tail(ph) ELSE ph

\* price_history[-10:]
Recent(ph) == SubSeq(ph, Len(ph) - VolatilityWindow + 1, Len(ph))

\* The sum over q of x / 100 and of its square: std / mean does not depend on
\* the unit, the prices are multiples of 100.
RECURSIVE SumOf(_)
SumOf(q) == IF q = <<>> THEN 0 ELSE (Head(q) \div 100) + SumOf(Tail(q))
RECURSIVE SumSq(_)
SumSq(q) == IF q = <<>> THEN 0 ELSE (Head(q) \div 100) * (Head(q) \div 100) + SumSq(Tail(q))

\* The band of calculate_volatility(q) = np.std(q) / np.mean(q) * 100 (the
\* population standard deviation): above 2.0 ("high"), below 0.5 ("low") or
\* between.  With n = Len(q), std^2 = (n * SumSq - SumOf^2) / n^2 and
\* mean^2 = SumOf^2 / n^2, so std / mean * 100 > 2 iff 2500 * std^2 > mean^2.
VolatilityBand(q) ==
    LET d == Len(q) * SumSq(q) - SumOf(q) * SumOf(q)
        m == SumOf(q) * SumOf(q)
    IN  IF 2500 * d > m THEN "high"
        ELSE IF 40000 * d < m THEN "low"
        ELSE "mid"

\* What the branch of _adjust_strategies_for_volatility for a band assigns.
BandSettings(band) ==
    IF band = "high" THEN [overbought |-> 85, oversold |-> 15, std_dev |-> 30]
    ELSE IF band = "low" THEN [overbought |-> 70, oversold |-> 30, std_dev |-> 20]
    ELSE [overbought |-> 80, oversold |-> 20, std_dev |-> 25]

\* self.strategies[market]['rsi']: self.strategies is a defaultdict(list) and
\* register_strategy appends to the list, so the index 'rsi' raises TypeError.
StrategyByName == "TypeError"

\* _adjust_strategies_for_volatility: the first statement of every branch
\* looks the RSI strategy up and raises before anything is assigned; the
\* handler of the method logs the error.
adjust_strategies_for_volatility(settings, band) ==
    IF StrategyByName = "TypeError" THEN settings ELSE BandSettings(band)

\* The prices the ticker can show next: the last one, or while the jumps last
\* another one; 0 for no price.
NextTicks ==
    {0} \cup (IF hist.arrived = <<>> \/ hist.jumps < MaxJumps
              THEN HistoryPrices
              ELSE {hist.arrived[Len(hist.arrived)]})

\* run() for one market up to the signals: the price (continue without one),
\* the append to the price history and the pop over 30 entries, and with 10
\* entries the volatility and the adjustment of the strategies.
run_history ==
    /\ Len(hist.arrived) < MaxArrivals
    /\ \E tick \in NextTicks :
        IF tick = 0 THEN hist' = hist
        ELSE LET ph == Trim(Append(hist.price_history, tick))
                 jump == hist.arrived # <<>> /\ tick # hist.arrived[Len(hist.arrived)]
             IN  hist' = [price_history |-> ph,
                          settings |-> IF Len(ph) >= VolatilityWindow
                                       THEN adjust_strategies_for_volatility(
                                                hist.settings, VolatilityBand(Recent(ph)))
                                       ELSE hist.settings,
                          arrived |-> Append(hist.arrived, tick),
                          jumps |-> hist.jumps + (IF jump THEN 1 ELSE 0)]
    /\ UNCHANGED <<engineVars, buy_prices, wpc, wl, exchangeVars, historyVars,
                   strat, candles, rsi, sizing>>

(* ------------------------- the amount of a BUY ------------------------- *)

\* available_amount = krw_balance * 0.995, in units of 10^-4
RiskNum == 9950

\* RiskManager.calculate_position_size: the quantity available_amount / price
\* (here in units of 10^-4, price in KRW), 0 without a KRW balance.
calculate_position_size(krw_balance, price) ==
    IF krw_balance <= 0 THEN 0 ELSE (krw_balance * RiskNum) \div price

NoBuy == [order |-> FALSE, amount |-> 0]
BuyOf(amount) == [order |-> TRUE, amount |-> amount]

\* A risk-managed BUY that does not test the balance against the minimum.
buy_risk_managed_unchecked(position_size, balance_krw) ==
    IF position_size <= 0 THEN NoBuy
    ELSE LET amount == Min(position_size, balance_krw * FeeNum)
         IN  BuyOf(IF amount < MIN_ORDER_AMOUNT * Scale
                   THEN MIN_ORDER_AMOUNT * Scale ELSE amount)

\* The BUY branch of execute_trade with full_amount_mode False: no order
\* without a position size or with a balance below MIN_ORDER_AMOUNT, else
\* amount = min(position_size, balance_krw * 0.9995), raised to
\* MIN_ORDER_AMOUNT when below it (units of 10^-4 KRW).
buy_risk_managed(position_size, balance_krw) ==
    IF position_size <= 0 THEN NoBuy
    ELSE IF balance_krw < MIN_ORDER_AMOUNT THEN NoBuy
    ELSE LET amount == Min(position_size, balance_krw * FeeNum)
         IN  BuyOf(IF amount < MIN_ORDER_AMOUNT * Scale
                   THEN MIN_ORDER_AMOUNT * Scale ELSE amount)

\* The BUY branch of execute_trade with full_amount_mode True, as
\* execute_trade_begin has it.
buy_full_amount(balance_krw) ==
    LET r == execute_trade_begin(TRUE, "BUY", 4000, "ok", balance_krw, 0, 0, "F", "F")
    IN  IF r.kind = "place" THEN BuyOf(r.ord.amount) ELSE NoBuy

NoSizing == [full |-> TRUE, balance_krw |-> 0, position_size |-> 0, buy |-> NoBuy]

\* A BUY call of execute_trade up to its order, in the mode full: balance_krw
\* is what its get_balance('KRW') gives, krw_balance what the one of the risk
\* manager gives, price the price of the coin.
buy_sizing ==
    /\ \E full \in BOOLEAN, balance_krw \in SizingBalances :
        IF full
        THEN sizing' = [full |-> TRUE, balance_krw |-> balance_krw, position_size |-> 0,
                        buy |-> buy_full_amount(balance_krw)]
        ELSE \E krw_balance \in SizingBalances, price \in CoinPrices :
                LET position_size == calculate_position_size(krw_balance, price)
                IN  sizing' = [full |-> FALSE, balance_krw |-> balance_krw,
                               position_size |-> position_size,
                               buy |-> buy_risk_managed(position_size, balance_krw)]
    /\ UNCHANGED <<engineVars, buy_prices, wpc, wl, exchangeVars, historyVars,
                   strat, candles, rsi, hist>>

(* ------------------------------ exchange ------------------------------- *)

\* An open buy order of a market is filled, in part or in whole: coins reach
\* the balance, which the engine sees as one of CoinLevels.
FillBids(m) ==
    /\ bids[m] > 0
    /\ \E c \in {x \in CoinLevels : x > balance[m]} :
           balance' = [balance EXCEPT ![m] = c]
    /\ bids' = [bids EXCEPT ![m] = @ - 1]
    /\ UNCHANGED <<engineVars, buy_prices, wpc, wl, norders, historyVars, unitVars>>

(* --------------------------- specification ----------------------------- *)

\* TradingEngine.__init__, and an account holding no coins.
Init ==
    /\ running = FALSE
    /\ is_trading_enabled = FALSE
    /\ full_amount_mode = TRUE
    /\ thread = 0
    /\ buy_prices = [m \in MarketSet |-> 0]
    /\ wpc = [w \in Threads |-> "none"]
    /\ wl = [w \in Threads |-> IdleLocals]
    /\ balance = [m \in MarketSet |-> 0]
    /\ bids = [m \in MarketSet |-> 0]
    /\ norders = 0
    /\ openBuys = [m \in MarketSet |-> 0]
    /\ lastOp = "init"
    /\ strat = [s \in Strategies |-> NewStrategy]
    /\ candles = [close |-> <<>>, emitted |-> <<>>, chained |-> "-"]
    /\ rsi = NoRsi
    /\ hist = NewHistory
    /\ sizing = NoSizing

\* The program as main.py runs it.
Next ==
    \/ MainStartup
    \/ DashStart
    \/ DashStop
    \/ MainShutdown
    \/ \E w \in Threads : run_check(w)
    \/ \E w \in Threads : run_sleep(w)
    \/ \E w \in Threads : run_market(w)
    \/ \E w \in Threads : ps_decide(w)
    \/ \E w \in Threads : et_begin(w)
    \/ \E w \in Threads : et_place(w)
    \/ \E w \in Threads : ps_continue(w)
    \/ \E m \in MarketSet : FillBids(m)

Spec == Init /\ [][Next]_vars

\* The engine under any sequence of calls of its interface, with a ticker
\* that is down, so that the threads run empty cycles.
NextApi ==
    \/ Start
    \/ Stop
    \/ StartEngine
    \/ StopEngine
    \/ \E w \in Threads : run_check(w)
    \/ \E w \in Threads : run_sleep(w)
    \/ \E w \in Threads : run_market_no_ticker(w)

SpecApi == Init /\ [][NextApi]_vars

\* The strategy objects on their own, called in any order with any candles.
NextStrategy == \E s \in Strategies : generate_signal(s)

SpecStrategy == Init /\ [][NextStrategy]_vars

\* The SMA strategy evaluated once per new candle of a series.
SpecSma == Init /\ [][sma_new_candle]_vars

\* The amount of a BUY in either mode, for any balance and price.
SpecSizing == Init /\ [][buy_sizing]_vars

\* The part of the cycles of run() before the signals, for one market.
SpecHistory == Init /\ [][run_history]_vars

\* The RSI strategy evaluated once per new candle of a series.
SpecRsi == Init /\ [][rsi_new_candle]_vars

\* A step of the run() of Thread w.
WorkerStep(w) ==
    \/ run_check(w)
    \/ run_sleep(w)
    \/ run_market(w)
    \/ ps_decide(w)
    \/ et_begin(w)
    \/ et_place(w)
    \/ ps_continue(w)

\* The program with threads that the scheduler keeps running and gateway
\* calls and sleeps that return.
SpecFair == Spec /\ \A w \in Threads : WF_vars(WorkerStep(w))

(* ------------------------------- claims -------------------------------- *)

\* The market a thread is handling.
MarketOf(w) == Markets[wl[w].mi]

\* Thread w makes its place_order call in this step.
PlaceStep(w) == wpc[w] = "place" /\ wpc'[w] = "ret"

\* C1: in every reachable state, trading_enabled = true implies running = true.
C1_EnabledImpliesRunning == is_trading_enabled => running

\* A step that is a start() call changing the engine or following another call.
StartStep ==
    /\ lastOp' = "start"
    /\ lastOp # "start" \/ <<running, is_trading_enabled, thread>>' # <<running, is_trading_enabled, thread>>

\* C2: start() called while the engine runs only sets is_trading_enabled and
\* launches no thread; called while stopped it launches one thread and leaves
\* running and is_trading_enabled true; a second start() changes nothing more.
C2_StartIdempotent ==
    /\ [](start(start(Engine)) = start(Engine))
    /\ [][StartStep =>
            /\ running' /\ is_trading_enabled'
            /\ running => thread' = thread /\ wpc' = wpc
            /\ ~running => /\ thread' = thread + 1
                           /\ wpc' = [wpc EXCEPT ![thread + 1] = "check"]
            /\ start(Engine') = Engine']_vars

\* C2 witness: start() was called on a stopped engine and launched its thread.
C2_Witness ==
    /\ lastOp = "start" /\ running /\ is_trading_enabled
    /\ thread = 1 /\ wpc[1] = "check"

\* C3: after stop() returns, is_trading_enabled is false whatever the state
\* was before the call.
C3_StopDisables == lastOp = "stop" => ~is_trading_enabled

\* C4: a place_order call begins only while trading is enabled: none after
\* stop() has cleared is_trading_enabled and before start() sets it again.
C4_NoOrderAfterStop ==
    [][\A w \in Threads : PlaceStep(w) => is_trading_enabled]_vars

\* C5: per market, no second buy is confirmed before a sell is confirmed.
C5_OneOpenBuy == \A m \in MarketSet : openBuys[m] <= 1

\* C6: an execute_trade call whose place_order raised has made 3 attempts.
C6_RetryOnException ==
    \A w \in Threads :
        (wpc[w] = "ret" /\ wl[w].res.outcome = "exception" /\ wl[w].res.attempts > 0)
            => wl[w].res.attempts = 3

\* C7: execute_trade returns True exactly when the gateway confirmed the order.
C7_ReturnsSuccess ==
    \A w \in Threads :
        wpc[w] = "ret" => (wl[w].res.ret = "True" <=> wl[w].res.outcome = "confirmed")

\* C8: buy_prices changes only in a place_order step of a buy that the gateway
\* confirms, and then to the price of that order; a confirmed buy records its
\* price, and a place_order step that is not a confirmed buy changes nothing.
C8_EntryPriceOnConfirmedBuy ==
    [][/\ \A m \in MarketSet :
            buy_prices'[m] # buy_prices[m] =>
                \E w \in Threads :
                    /\ PlaceStep(w) /\ MarketOf(w) = m
                    /\ wl[w].ord.side = "bid"
                    /\ wl'[w].res.outcome = "confirmed"
                    /\ buy_prices'[m] = wl[w].ord.price
       /\ \A w \in Threads :
            PlaceStep(w) =>
                IF wl[w].ord.side = "bid" /\ wl'[w].res.outcome = "confirmed"
                THEN buy_prices' = [buy_prices EXCEPT ![MarketOf(w)] = wl[w].ord.price]
                ELSE buy_prices' = buy_prices]_vars

\* C8 witness: a buy was confirmed and its price is the recorded entry price.
C8_Witness ==
    \E w \in Threads :
        /\ wpc[w] = "ret" /\ wl[w].call.action = "BUY"
        /\ wl[w].res.outcome = "confirmed"
        /\ buy_prices[MarketOf(w)] = wl[w].ord.price

\* C9: after a confirmed sell the market has no recorded entry price.
C9_NoEntryAfterSell ==
    \A w \in Threads :
        (wpc[w] = "ret" /\ wl[w].call.action = "SELL" /\ wl[w].res.outcome = "confirmed")
            => buy_prices[MarketOf(w)] = 0

\* C10: when at least 2 signals are BUY and the first position check finds no
\* position, process_signals makes one execute_trade call, a BUY at the current
\* price, and ends when it returns: no sell and no second buy.
C10_StrongBuy ==
    /\ [](\A w \in Threads :
            (wl[w].vb2 /\ wl[w].pos1 = "F") =>
                /\ wpc[w] \in {"exec", "place", "ret"}
                /\ wl[w].call = [action |-> "BUY", price |-> wl[w].cp, strong |-> TRUE])
    /\ [][\A w \in Threads :
            (wl[w].vb2 /\ wl[w].pos1 = "F" /\ wpc[w] = "ret" /\ wpc'[w] # "ret") =>
                /\ wpc'[w] \in {"market", "sleep"}
                /\ wl'[w].call = NoCall]_vars

\* C10 witness: the strong buy was confirmed.
C10_Witness ==
    \E w \in Threads :
        /\ wl[w].vb2 /\ wl[w].pos1 = "F"
        /\ wpc[w] = "ret" /\ wl[w].res.outcome = "confirmed"

\* C11: when at least 2 signals are SELL and the position checks find a
\* position, process_signals makes one execute_trade call, a SELL at the
\* current price, and ends when it returns, whatever the number of BUY
\* signals: no buy and no second sell.
C11_StrongSell ==
    /\ [](\A w \in Threads :
            (wl[w].vs2 /\ wl[w].pos1 = "T") =>
                \/ /\ wpc[w] = "decide" /\ wl[w].phase = "strongsell"
                   /\ wl[w].vb2 /\ wl[w].call = NoCall
                \/ /\ wpc[w] \in {"exec", "place", "ret"}
                   /\ wl[w].call = [action |-> "SELL", price |-> wl[w].cp, strong |-> TRUE])
    /\ [][\A w \in Threads :
            (wl[w].vs2 /\ wl[w].pos1 = "T") =>
                /\ (wpc[w] = "decide" /\ wl'[w] # wl[w]) => wpc'[w] \in {"exec", "backoff"}
                /\ (wpc[w] = "ret" /\ wpc'[w] # "ret") =>
                        /\ wpc'[w] \in {"market", "sleep"}
                        /\ wl'[w].call = NoCall]_vars

\* C11 witness: 2 BUY and 2 SELL signals while holding, and the strong sell
\* was confirmed.
C11_Witness ==
    \E w \in Threads :
        /\ wl[w].vs2 /\ wl[w].vb2 /\ wl[w].pos1 = "T"
        /\ wpc[w] = "ret" /\ wl[w].call.action = "SELL"
        /\ wl[w].res.outcome = "confirmed"

\* Thread w calls execute_trade from process_signals in this step.
CallStep(w) == wpc[w] = "decide" /\ wpc'[w] = "exec"

\* C12: in every branch of process_signals, execute_trade is called with BUY
\* only when the _in_position check made for it found no position and with
\* SELL only when it found one; and a sell order goes to the gateway only
\* with the positive balance execute_trade read itself.
C12_PositionGate ==
    /\ [][\A w \in Threads :
            CallStep(w) =>
                /\ wl'[w].call.action \in {"BUY", "SELL"}
                /\ wl'[w].call.action = "BUY" => ~in_position(balance[MarketOf(w)])
                /\ wl'[w].call.action = "SELL" => in_position(balance[MarketOf(w)])]_vars
    /\ [](\A w \in Threads :
            (wpc[w] = "place" /\ wl[w].ord.side = "ask") => wl[w].ord.volume > 0)

\* C12 witness: a per-signal SELL made while holding was confirmed.
C12_Witness ==
    \E w \in Threads :
        /\ wpc[w] = "ret" /\ ~wl[w].call.strong
        /\ wl[w].call.action = "SELL" /\ wl[w].res.outcome = "confirmed"

\* C13: process_signals submits at most one order for a market in one cycle.
C13_OneOrderPerCycle == \A w \in Threads : wl[w].placed <= 1

\* volume * price of an order, in the units of amounts (10^-4 KRW).
Notional(o) == o.volume * o.price

\* C14: no order with volume * price below MIN_ORDER_AMOUNT reaches
\* place_order, for buys and for sells.
C14_MinNotional ==
    \A w \in Threads :
        wpc[w] = "place" => Notional(wl[w].ord) >= MIN_ORDER_AMOUNT * Scale

\* C15: every sell order execute_trade builds has as volume the whole balance
\* get_balance gave in that call, in the stop-loss, take-profit and ordinary
\* branches.
C15_SellWholeBalance ==
    [][\A w \in Threads :
        (wpc[w] = "exec" /\ wpc'[w] = "place" /\ wl'[w].ord.side = "ask") =>
            /\ wl'[w].ord.volume = balance[MarketOf(w)]
            /\ wl'[w].ord.branch \in {"stoploss", "takeprofit", "ordinary"}]_vars

\* C15 witness: a take-profit sell of the whole balance was confirmed.
C15_Witness ==
    \E w \in Threads :
        /\ wpc[w] = "ret" /\ wl[w].ord.side = "ask"
        /\ wl[w].ord.branch = "takeprofit" /\ wl[w].ord.volume \in CoinLevels
        /\ wl[w].res.outcome = "confirmed"

\* Thread w is done with the market in this step without an exception.
MarketDone(w) == wpc[w] \in {"decide", "ret"} /\ wpc'[w] \in {"market", "sleep"}

\* C16: a position held at a margin below -1.0% against its recorded entry
\* price is sold: the cycle that sees it calls execute_trade with SELL.
C16_StopLossSells ==
    [][\A w \in Threads :
        (/\ MarketDone(w)
         /\ wl[w].pos1 = "T"
         /\ buy_prices[MarketOf(w)] > 0
         /\ MarginBelow(wl[w].cp, buy_prices[MarketOf(w)], StopLossBase))
            => wl[w].sell]_vars

\* C17: get_trading_status() tells STOPPED, RUNNING_NO_TRADE and TRADING
\* apart: the report of the new engine, which is STOPPED, is only given by an
\* engine that is not running, and every other report only by a running one.
C17_StatusTellsStates ==
    IF get_trading_status(Engine) = get_trading_status(NewEngine)
    THEN ~running
    ELSE running

\* C18: a thread leaves run() only at the loop test, with running false; an
\* exception inside a cycle leads to the fallback sleep, after which the
\* thread is back at the loop test and, with running still true, starts a new
\* cycle.
C18_LoopSurvives ==
    /\ [][\A w \in Threads :
            /\ (wpc'[w] = "dead" /\ wpc[w] # "dead") => (wpc[w] = "check" /\ ~running)
            /\ (wpc[w] = "backoff" /\ wpc'[w] # "backoff") => wpc'[w] = "check"
            /\ (wpc[w] = "check" /\ wpc'[w] # "check" /\ running) => wpc'[w] = "market"]_vars
    /\ \A w \in Threads : (wpc[w] = "backoff") ~> (wpc[w] \in {"market", "dead"})

\* C18 witness: an exception was caught while the engine is running.
C18_Witness == \E w \in Threads : wpc[w] = "backoff" /\ running /\ lastOp # "shutdown"

\* The amount of a full-amount buy from a KRW balance b: 99.95% of it, and
\* MIN_ORDER_AMOUNT when that is less.
BuyNotional(b) ==
    IF b * FeeNum < MIN_ORDER_AMOUNT * Scale THEN MIN_ORDER_AMOUNT * Scale ELSE b * FeeNum

\* v is n / p to the nearest multiple of 10^-8.
IsQuotient(v, n, p) == 2 * (v * p - n) <= p /\ 2 * (n - v * p) <= p

\* C19: a cycle with the single signal BUY, no position, a sufficient KRW
\* balance and a gateway that confirms the order: when execute_trade returns,
\* one order has been submitted, a buy at the price the signal carries with
\* volume = notional / price (to 8 decimals) for the notional of a sufficient
\* balance, and the entry price recorded for the market is the signal's price.
C19_SingleBuyCycle ==
    \A w \in Threads :
        (/\ wpc[w] = "ret" /\ wl[w].sigs = <<"BUY">> /\ wl[w].pos1 = "F"
         /\ ~wl[w].vb2 /\ ~wl[w].vs2 /\ wl[w].placed = 1
         /\ wl[w].res.outcome = "confirmed") =>
            /\ wl[w].ord.side = "bid" /\ wl[w].ord.price = wl[w].sp
            /\ wl[w].sp \in Prices
            /\ \E b \in KrwLevels :
                /\ b >= MIN_ORDER_AMOUNT
                /\ IsQuotient(wl[w].ord.volume, BuyNotional(b), wl[w].ord.price)
            /\ buy_prices[MarketOf(w)] = wl[w].sp
            /\ wl[w].res.ret = "True"

\* C19 witness: the single BUY signal carried a price other than the current
\* one, and the buy at that price was confirmed and recorded.
C19_Witness ==
    \E w \in Threads :
        /\ wpc[w] = "ret" /\ wl[w].sigs = <<"BUY">> /\ wl[w].pos1 = "F"
        /\ wl[w].placed = 1 /\ wl[w].res.outcome = "confirmed"
        /\ wl[w].sp # wl[w].cp /\ buy_prices[MarketOf(w)] = wl[w].sp
        /\ lastOp = "main"

RECURSIVE SumRange(_, _, _)
SumRange(q, a, b) == IF a > b THEN 0 ELSE q[a] + SumRange(q, a + 1, b)

\* The mean of the last SmaShortWindow closes up to row i is above the mean
\* of the last SmaLongWindow closes (both defined: i >= SmaLongWindow).
ShortMeanAbove(q, i) ==
    SumRange(q, i - SmaShortWindow + 1, i) * SmaLongWindow
        > SumRange(q, i - SmaLongWindow + 1, i) * SmaShortWindow

\* The signal the crossover rule asks for at candle i of the closes q: BUY
\* where the short mean goes from at-or-below the long mean to above it, SELL
\* where it goes from above to at-or-below, nothing while it stays on a side.
CrossoverAt(q, i) ==
    LET before == ShortMeanAbove(q, i - 1)
        now == ShortMeanAbove(q, i)
    IN  IF ~before /\ now THEN "BUY"
        ELSE IF before /\ ~now THEN "SELL"
        ELSE "None"

\* C21: evaluated once per new candle, the SMA strategy emits BUY at exactly
\* the candles where the short mean goes from at-or-below the long mean to
\* above it, SELL at exactly those where it goes from above to at-or-below,
\* and nothing at any other candle (of those where both means had a
\* predecessor).
C21_OncePerCrossover ==
    \A i \in 1 .. Len(candles.close) :
        i > SmaLongWindow => candles.emitted[i] = CrossoverAt(candles.close, i)

\* Where the chained assignment writes the column, the strategy does emit
\* once per crossover: C21 fails only through the other outcome.
C21_OncePerCrossoverIfWritten ==
    candles.chained = "view" => C21_OncePerCrossover

\* A series that rises and then falls, with one BUY at the upward crossing,
\* one SELL at the downward one and nothing in between.
C21_WrittenCase ==
    /\ Len(candles.close) = MaxSeries
    /\ candles.emitted[SmaLongWindow + 1] = "BUY"
    /\ candles.emitted[SmaLongWindow + 2] = "None"
    /\ candles.emitted[MaxSeries] = "SELL"

\* The RSI strategy was evaluated on enough rows to compute an RSI.
RsiEvaluated == Len(rsi.close) >= RsiPeriod

\* No close of the last RsiPeriod rows is below the one before it: the
\* average loss over the period is 0.
NoLossInPeriod ==
    \A i \in Len(rsi.close) - RsiPeriod + 1 .. Len(rsi.close) :
        i > 1 => rsi.close[i] >= rsi.close[i - 1]

\* C22: when the average loss over the RSI period is 0, a flat series
\* included, the RSI is 100 and the strategy returns its SELL signal (-1);
\* for every other input the RSI is a number between 0 and 100.
C22_NoLossIsMaximal ==
    RsiEvaluated =>
        IF NoLossInPeriod
        THEN /\ ~rsi.value.nan /\ rsi.value.num = 100 * rsi.value.den
             /\ rsi.signal = "-1"
        ELSE /\ ~rsi.value.nan
             /\ 0 <= rsi.value.num /\ rsi.value.num <= 100 * rsi.value.den

\* With a gain in the period, or a loss, the claim holds: RSI 100 and SELL
\* for no loss and some gain, a number in [0, 100] with a loss.
C22_HoldsOffFlat ==
    (RsiEvaluated /\ GainSum(rsi.close, Len(rsi.close), RsiPeriod)
                     + LossSum(rsi.close, Len(rsi.close), RsiPeriod) > 0)
        => C22_NoLossIsMaximal

\* A rising series: no loss, RSI 100, SELL.
C22_RisingCase ==
    /\ RsiEvaluated /\ NoLossInPeriod
    /\ rsi.value = Quot(100, 1) /\ rsi.signal = "-1"

\* C23: the signal of the RSI strategy is counted as a vote, and processing
\* a signal list that holds one never raises out of process_signals: no
\* thread is in the handler of the loop because process_signals raised.
C23_RsiSignalProcessed ==
    \A w \in Threads : ~(wpc[w] = "backoff" /\ wl[w].phase = "raised")

\* C24: a cycle that finds a position open at a margin below -1.0% submits a
\* sell order for the market before it is done with it, with or without a
\* SELL signal of a strategy.
C24_StopLossOrderEveryCycle ==
    [][\A w \in Threads :
        (/\ MarketDone(w)
         /\ wl[w].pos1 = "T"
         /\ buy_prices[MarketOf(w)] > 0
         /\ MarginBelow(wl[w].cp, buy_prices[MarketOf(w)], StopLossBase))
            => (wl[w].sell /\ wl[w].placed > 0)]_vars

\* With a SELL signal the cycle does sell such a position: execute_trade was
\* called with SELL and its order was placed.
C24_SoldOnSignal ==
    \E w \in Threads :
        /\ wpc[w] = "ret" /\ wl[w].pos1 = "T" /\ wl[w].sell /\ wl[w].placed > 0
        /\ wl[w].ord.side = "ask"
        /\ buy_prices[MarketOf(w)] > 0
        /\ MarginBelow(wl[w].cp, buy_prices[MarketOf(w)], StopLossBase)

\* The last n entries of q, all of q when it has fewer.
LastOf(q, n) == IF Len(q) <= n THEN q ELSE SubSeq(q, Len(q) - n + 1, Len(q))

\* C25: the price history of a market never holds more than 30 prices, and
\* is the most recent prices that arrived, in their order of arrival: a
\* full history loses its oldest entry to a new price.
C25_HistoryIsRecentPrices ==
    /\ Len(hist.price_history) <= HistoryCap
    /\ hist.price_history = LastOf(hist.arrived, HistoryCap)

\* C25 witness: more than 30 prices arrived, the first one differs from the
\* oldest one kept and the newest one is the last of the history.
C25_Witness ==
    /\ Len(hist.arrived) > HistoryCap
    /\ Len(hist.price_history) = HistoryCap
    /\ hist.arrived[1] # hist.price_history[1]
    /\ hist.price_history[HistoryCap] # hist.price_history[HistoryCap - 1]

\* The settings the volatility rule asks for in a band: those of the high
\* band above 2.0%, those of the low band below 0.5%, and the configured
\* defaults between.
RuleSettings(band) == IF band = "mid" THEN ConfiguredSettings ELSE BandSettings(band)

\* C26: with at least 10 prices in the history, the thresholds of the RSI
\* and Bollinger strategies are those of the volatility band of the last 10
\* prices; with fewer they are the configured ones, unchanged.
C26_ThresholdsFollowVolatility ==
    IF Len(hist.price_history) >= VolatilityWindow
    THEN hist.settings = RuleSettings(VolatilityBand(Recent(hist.price_history)))
    ELSE hist.settings = ConfiguredSettings

\* What the code does keep: the thresholds never change.
C26_ThresholdsNeverChange == hist.settings = ConfiguredSettings

\* A history of 10 prices in the high band, its thresholds the configured ones.
C26_HighBandCase ==
    /\ Len(hist.price_history) >= VolatilityWindow
    /\ VolatilityBand(Recent(hist.price_history)) = "high"
    /\ hist.settings = ConfiguredSettings

\* Thread w is inside a cycle, handling a market.
InCycle(w) == wpc[w] \in {"market", "decide", "exec", "place", "ret"}

\* C27: whatever fails while a market is handled, the thread does not end
\* up in the handler of the loop; it leaves the market only for the next
\* configured one, and the cycle only after the last one.
C27_FailuresStayInCycle ==
    [][\A w \in Threads :
        InCycle(w) =>
            /\ wpc'[w] # "backoff"
            /\ (wl'[w].mi # wl[w].mi /\ wpc'[w] = "market") => wl'[w].mi = wl[w].mi + 1
            /\ wpc'[w] = "sleep" => wl[w].mi = Len(Markets)]_vars

\* The failures execute_trade handles itself: after a rejected or failed
\* order the thread goes on with the cycle.
C27_OrderFailureHandledInside ==
    [][\A w \in Threads :
        wpc[w] \in {"exec", "place", "ret"} => wpc'[w] # "backoff"]_vars

\* C28: when place_order returns null, execute_trade has called it once for
\* the trade and does not call it again, returns (None) instead of raising,
\* and leaves buy_prices as it was.
C28_RejectedOrderOnce ==
    [][\A w \in Threads :
        (wpc[w] = "place" /\ wl'[w].res.outcome = "rejected") =>
            /\ wpc'[w] = "ret"
            /\ wl'[w].placed = wl[w].placed + 1
            /\ wl'[w].res.attempts = 1
            /\ wl'[w].res.ret = "None"
            /\ buy_prices' = buy_prices]_vars

\* C28 witness: a buy order was rejected after one call, and no entry price
\* is recorded.
C28_Witness ==
    \E w \in Threads :
        /\ wpc[w] = "ret" /\ wl[w].res.outcome = "rejected"
        /\ wl[w].ord.side = "bid" /\ wl[w].placed = 1
        /\ buy_prices[MarketOf(w)] = 0

\* A BUY call of Thread w has read the KRW balance in this step.
BuyReadBalance(w) == wpc[w] = "exec" /\ wl'[w].krw > 0

\* The first half of C29: with a balance below MIN_ORDER_AMOUNT the BUY
\* returns without an order and without a change of the engine.
C29_BelowMinimumSkips ==
    [][\A w \in Threads :
        (BuyReadBalance(w) /\ wl'[w].krw < MIN_ORDER_AMOUNT) =>
            /\ wpc'[w] = "ret" /\ wl'[w].placed = wl[w].placed
            /\ wl'[w].res.outcome = "lowbal"
            /\ <<running, is_trading_enabled, full_amount_mode, thread, buy_prices>>'
                    = <<running, is_trading_enabled, full_amount_mode, thread, buy_prices>>
            /\ <<balance, bids, norders>>' = <<balance, bids, norders>>]_vars

\* C29: a BUY that reads a balance below MIN_ORDER_AMOUNT submits no order
\* and changes nothing in the engine; one that reads at least that much
\* spends balance * 0.9995, and never more.
C29_BuySpendsBalanceLessFee ==
    /\ C29_BelowMinimumSkips
    /\ [][\A w \in Threads :
            (BuyReadBalance(w) /\ wl'[w].krw >= MIN_ORDER_AMOUNT) =>
                /\ wpc'[w] = "place"
                /\ wl'[w].ord.amount = wl'[w].krw * FeeNum]_vars

\* A BUY skipped on a balance below the minimum, nothing submitted.
C29_SkippedCase ==
    \E w \in Threads :
        /\ wpc[w] = "ret" /\ wl[w].res.outcome = "lowbal"
        /\ wl[w].krw > 0 /\ wl[w].krw < MIN_ORDER_AMOUNT /\ wl[w].placed = 0

\* Truncation of amount / price to 8 decimals.
Truncated(amount, price) == amount \div price

\* C30: the volume of every buy order is amount / price truncated to 8
\* decimals, so that volume * price is never more than the amount.
C30_VolumeTruncated ==
    \A w \in Threads :
        (wpc[w] = "place" /\ wl[w].ord.side = "bid") =>
            /\ wl[w].ord.volume = Truncated(wl[w].ord.amount, wl[w].ord.price)
            /\ wl[w].ord.volume * wl[w].ord.price <= wl[w].ord.amount

\* What the code keeps: the volume is amount / price to the nearest multiple
\* of 10^-8.
C30_VolumeRounded ==
    \A w \in Threads :
        (wpc[w] = "place" /\ wl[w].ord.side = "bid") =>
            IsQuotient(wl[w].ord.volume, wl[w].ord.amount, wl[w].ord.price)

\* A buy of 8995.5 KRW at 40,000,000: 0.0002248875 coin, submitted as
\* 0.00022489.
C30_RoundedUpCase ==
    \E w \in Threads :
        /\ wpc[w] = "place" /\ wl[w].ord.side = "bid"
        /\ wl[w].ord.volume * wl[w].ord.price > wl[w].ord.amount

\* Thread w has been started and run() has not returned.
Alive(w) == wpc[w] \notin {"none", "dead"}

C32_OneWorker == Cardinality({w \in Threads : Alive(w)}) <= 1

\* C33: no place_order call is made after stop_engine() has returned, also
\* when it returned from its join with the thread still inside a cycle.
C33_NoOrderAfterStopEngine ==
    [][\A w \in Threads : PlaceStep(w) => lastOp # "shutdown"]_vars

\* A thread that wakes from its sleep after stop_engine() places no order: the
\* orders after stop_engine() are those of the cycle that was in progress.
C33_NoNewCycleOrder ==
    [][\A w \in Threads :
        (lastOp = "shutdown" /\ wpc[w] \in {"sleep", "backoff", "check"})
            => wpc'[w] \in {"sleep", "backoff", "check", "dead"}]_vars

\* The last candle fetch of strategy s failed: get_candles gave None or no
\* candles, or raised.
FetchFailed(s) == strat[s].signal # "-" /\ strat[s].fetched <= 0

\* C34: a strategy whose candle fetch failed returns its no-signal value
\* from that call: no BUY or SELL comes from the candles of an earlier call.
C34_NoSignalFromStaleCandles ==
    \A s \in Strategies : FetchFailed(s) => strat[s].signal = HoldResult(s)

\* Before any fetch has succeeded a failed fetch does give no signal.
C34_NoSignalWithoutData ==
    \A s \in Strategies : (FetchFailed(s) /\ strat[s].df = 0) => strat[s].signal = HoldResult(s)

\* The SMA strategy repeats BUY from the candles of an earlier call.
C34_StaleBuyCase ==
    /\ FetchFailed("sma") /\ strat["sma"].df >= SmaLongWindow
    /\ strat["sma"].signal = "BUY"

\* C35: a SELL call of execute_trade with trading enabled and a positive
\* balance that meets no exception makes exactly one place_order call, for a
\* sell, in whichever branch: it never returns without one, and after the
\* one call it returns.
C35_SellSubmitsOneOrder ==
    [][\A w \in Threads :
        /\ (/\ wpc[w] = "exec" /\ wl[w].call.action = "SELL"
            /\ is_trading_enabled /\ balance[MarketOf(w)] > 0
            /\ wpc'[w] # "exec")
                => \/ /\ wpc'[w] = "place" /\ wl'[w].ord.side = "ask"
                      /\ wl'[w].placed = wl[w].placed
                   \/ wpc'[w] = "ret" /\ wl'[w].res.outcome = "exception"
        /\ (wpc[w] = "place" /\ wl[w].ord.side = "ask" /\ wpc'[w] # "place")
                => wpc'[w] = "ret" /\ wl'[w].placed = wl[w].placed + 1]_vars

\* C35 witness: a SELL at a margin between the stop-loss and take-profit
\* thresholds went through the ordinary branch and its one order was confirmed.
C35_Witness ==
    \E w \in Threads :
        /\ wpc[w] = "ret" /\ wl[w].call.action = "SELL" /\ wl[w].placed = 1
        /\ wl[w].ord.branch = "ordinary" /\ wl[w].res.outcome = "confirmed"
        /\ wl[w].res.attempts = 1

\* C36: the amount of every buy order, in the full-amount mode and in the
\* risk-managed mode, is at most the KRW balance the execute_trade call read,
\* also when it was raised to MIN_ORDER_AMOUNT.
C36_BuyWithinBalance ==
    sizing.buy.order => sizing.buy.amount <= sizing.balance_krw * Scale

\* C36 witness: a risk-managed buy whose amount, a position size far below
\* the minimum, was raised to MIN_ORDER_AMOUNT with a balance of just that.
C36_Witness ==
    /\ ~sizing.full /\ sizing.buy.order
    /\ sizing.position_size < MIN_ORDER_AMOUNT * Scale
    /\ sizing.buy.amount = MIN_ORDER_AMOUNT * Scale
    /\ sizing.balance_krw = MIN_ORDER_AMOUNT

\* The same for the orders the running engine submits: the amount of a buy
\* is at most the balance its call read.
C36_SubmittedWithinBalance ==
    \A w \in Threads :
        (wpc[w] = "place" /\ wl[w].ord.side = "bid") =>
            wl[w].ord.amount <= wl[w].krw * Scale

====
